---- MODULE Spec2Model ----
(***************************************************************************)
(* Model of backend/apps/rag/batch_utils.py: OpenAI embeddings through the *)
(* synchronous endpoint or through the Batch API.                          *)
(*                                                                         *)
(* One behaviour is one call, either of generate_openai_batch_embeddings   *)
(* or (as the module's own test does) of _request_async_embedding.  The    *)
(* provider (files.create, batches.create, batches.retrieve,               *)
(* files.content, POST /embeddings) is the environment: every answer it    *)
(* can give is a nondeterministic choice.                                  *)
(*                                                                         *)
(* Strings that the code compares (custom_id) are sequences of code        *)
(* points.  A text is a record: id stands for its content (texts of one    *)
(* input list are pairwise different), len is len(text), tok is the number *)
(* of tokens a tiktoken encoding gives it.  The embedding vector of a text *)
(* is abstracted to the id of the text it was computed from.               *)
(***************************************************************************)
EXTENDS Integers, Sequences, FiniteSets, TLC

\* ------------------------------------------------------------ constants
\* stop_after_attempt(5) on _process_one_batch
ProcessAttempts == 5
\* stop_after_attempt(5) on _request_sync_embedding
SyncAttempts == 5
\* if text_length < 500_000
SyncThreshold == 500000
\* chunk_size: int = 2048
DefaultChunkSize == 2048
\* token_limit: int = 1_000_000
DefaultTokenLimit == 1000000

\* --------------------------------------------------------------- bounds
\* short input lists: every list of at most MaxTexts texts over TextKinds
MaxTexts == 3
\* long input lists: MaxLong - 1 or MaxLong texts of LongKind
MaxLong == 11

\* two texts of 250000 characters reach the threshold, one of 250000 and one
\* of 249999 stay below it; two texts of 600000 tokens pass the default
\* token limit, one of 600000 and one of 400000 meet it
TextKinds ==
    { [len |-> 250000, tok |-> 600000], [len |-> 249999, tok |-> 400000] }
LongKind == [len |-> 50000, tok |-> 50000]
\* token_limit values a direct caller of _request_async_embedding passes
TokenLimits == {62500, 500000, DefaultTokenLimit}
\* the limits tried with the long lists
LongTokenLimits == {500000, DefaultTokenLimit}
\* chunk_size values of _batch_iterator: the default, and small ones that
\* split a batch of a few texts the way 2048 splits one of thousands
ChunkSizes == {1, 2, DefaultChunkSize}
\* uuid4().hex, shortened
Uuids == { <<97, 49>> }

None == "None"

VARIABLES
    texts,          \* the input list
    token_limit,    \* token_limit of _request_async_embedding
    chunk_size,     \* chunk_size of _batch_iterator / _request_iterator
    encodings,      \* the encodings tiktoken can load: subset of {"model", "cl100k_base"}
    entry,          \* "generate": generate_openai_batch_embeddings; "async": _request_async_embedding
    uuid,           \* uuid4().hex of this call
    pc,             \* where the call is
    attempt,        \* tenacity's attempt number of the running decorated function
    gen,            \* the suspended _batch_iterator generator
    batch_idx,      \* the batch_idx last yielded
    batch,          \* the payload last yielded, a sequence of request lines
    input_file,     \* input_file of the running attempt
    batch_job,      \* batch_job of the running attempt
    status,         \* status last retrieved in the running attempt
    output_file_id, \* output_file_id last retrieved in the running attempt
    embeddings,     \* the list the comprehension has built; the returned list at the end
    outcome,        \* "running", "list" (a list returned), "none" (None returned), "raised"
    faithful,       \* history: every output the provider gave was one record per request chunk
    submitted,      \* history: batch_idx values for which files.create was called
    returned,       \* history: batch_idx values whose _process_one_batch returned
    failed_batches, \* history: batch_idx values a job of which was seen failed/expired/cancelled
    exhausted,      \* history: batch_idx values whose _process_one_batch raised RetryError
    sync_called,    \* history: POST /embeddings was called
    escaped,        \* history: the exception that left the sync or the batch path
    sync_posts,     \* history: how often POST /embeddings was called
    yielded,        \* history: batch_idx and text list of every batch the generator yielded
    assembled_bad   \* history: embeddings were returned from an output with a malformed
                    \* line or a custom_id that is not of the submitted batch

vars ==
    << texts, token_limit, chunk_size, encodings, entry, uuid, pc, attempt, gen,
       batch_idx, batch, input_file, batch_job, status, output_file_id,
       embeddings, outcome, faithful, submitted, returned, failed_batches,
       exhausted, sync_called, escaped, sync_posts, yielded,
       assembled_bad >>

inputs == << texts, token_limit, chunk_size, encodings, entry, uuid >>
history ==
    << faithful, submitted, returned, failed_batches, exhausted, sync_called, escaped >>
counts == << sync_posts, yielded, assembled_bad >>

\* ------------------------------------------------------------- helpers
Min(a, b) == IF a < b THEN a ELSE b

RECURSIVE SumLen(_)
SumLen(lst) ==
    IF lst = <<>> THEN 0 ELSE lst[1].len + SumLen(Tail(lst))

RECURSIVE Concat(_)
Concat(seqs) ==
    IF seqs = <<>> THEN <<>> ELSE seqs[1] \o Concat(Tail(seqs))

\* str(n) for n >= 0, as code points
RECURSIVE DecStr(_)
DecStr(n) ==
    IF n < 10 THEN << 48 + n >> ELSE DecStr(n \div 10) \o << 48 + (n % 10) >>

\* a < b for Python strings: lexicographic by code point
RECURSIVE StrLess(_, _)
StrLess(a, b) ==
    IF b = <<>> THEN FALSE
    ELSE IF a = <<>> THEN TRUE
    ELSE IF a[1] < b[1] THEN TRUE
    ELSE IF a[1] > b[1] THEN FALSE
    ELSE StrLess(Tail(a), Tail(b))

\* the provider's embedding of a text
Embedding(text) == text.id

\* ------------------------------------------------------- _get_token_count
HeuristicCount(text) == text.len \div 4

get_token_count(enc) ==
    IF "model" \in enc THEN "model"
    ELSE IF "cl100k_base" \in enc THEN "cl100k_base"
    ELSE "heuristic"

text2tokens(counter, text) ==
    IF counter = "heuristic" THEN HeuristicCount(text) ELSE text.tok

\* the lambda of a tiktoken encoding calls func.encode(text), which raises
\* ValueError on a text that holds a special token; the heuristic only takes
\* len(text)
encode_raises(counter, text) ==
    counter # "heuristic" /\ text.special

\* --------------------------------------------------------- _texts_iterator
texts_iterator(lst, size) ==
    [ k \in 1 .. ((Len(lst) + size - 1) \div size) |->
        << (k - 1) * size,
           SubSeq(lst, (k - 1) * size + 1, Min(k * size, Len(lst))) >> ]

\* ------------------------------------------------------- _request_iterator
\* variant: the id names the batch only
custom_id_of_batch(u, b_idx, request_idx) ==
    << 98, 97, 116, 99, 104, 95 >> \o u \o << 95 >> \o DecStr(b_idx)

\* f"batch_{uuid}_{batch_idx}_{request_idx}"
custom_id(u, b_idx, request_idx) ==
    << 98, 97, 116, 99, 104, 95 >> \o u \o << 95 >> \o DecStr(b_idx)
        \o << 95 >> \o DecStr(request_idx)

request_iterator(lst, u, b_idx, size) ==
    LET chunks == texts_iterator(lst, size)
    IN  [ k \in 1 .. Len(chunks) |->
            [ custom_id |-> custom_id(u, b_idx, chunks[k][1]),
              input |-> chunks[k][2] ] ]

\* --------------------------------------------------------- _batch_iterator
\* variant: the numbering starts at 1
GenInitFromOne ==
    [ i |-> 1, current_request |-> <<>>, current_tokens |-> 0,
      batch_idx |-> 1, finished |-> FALSE ]

\* the generator before its first next()
GenInit ==
    [ i |-> 1, current_request |-> <<>>, current_tokens |-> 0,
      batch_idx |-> 0, finished |-> FALSE ]

\* variant: the running sum left out of the test
OverflowsAlone(current_tokens, tokens, limit) == tokens > limit

Overflows(current_tokens, tokens, limit) == current_tokens + tokens > limit

\* next(generator): runs the loop from where it was suspended to the next
\* yield (the statements after a yield run when the generator is resumed;
\* nothing observes the generator in between, so they are folded in)
RECURSIVE batch_iterator_next(_, _, _, _, _, _)
batch_iterator_next(g, lst, counter, u, limit, size) ==
    IF g.finished
    THEN [ gen |-> g, yielded |-> FALSE, raised |-> FALSE, batch_idx |-> g.batch_idx,
           request |-> <<>>, batch |-> <<>> ]
    ELSE IF g.i > Len(lst)
    THEN [ gen |-> [ g EXCEPT !.finished = TRUE ],
           yielded |-> g.current_request # <<>>,
           raised |-> FALSE,
           batch_idx |-> g.batch_idx,
           request |-> g.current_request,
           batch |-> request_iterator(g.current_request, u, g.batch_idx, size) ]
    ELSE IF encode_raises(counter, lst[g.i])
    THEN [ gen |-> [ g EXCEPT !.finished = TRUE ],
           yielded |-> FALSE, raised |-> TRUE, batch_idx |-> g.batch_idx,
           request |-> <<>>, batch |-> <<>> ]
    ELSE LET text == lst[g.i]
             tokens == text2tokens(counter, text)
         IN  IF Overflows(g.current_tokens, tokens, limit)
             THEN [ gen |-> [ g EXCEPT !.i = g.i + 1,
                                       !.batch_idx = g.batch_idx + 1,
                                       !.current_request = << text >>,
                                       !.current_tokens = tokens ],
                    yielded |-> TRUE,
                    raised |-> FALSE,
                    batch_idx |-> g.batch_idx,
                    request |-> g.current_request,
                    batch |-> request_iterator(g.current_request, u, g.batch_idx, size) ]
             ELSE batch_iterator_next(
                      [ g EXCEPT !.i = g.i + 1,
                                 !.current_request = Append(g.current_request, text),
                                 !.current_tokens = g.current_tokens + tokens ],
                      lst, counter, u, limit, size)

\* list(_batch_iterator(...)): every (batch_idx, batch) the generator yields
RECURSIVE batch_iterator_from(_, _, _, _, _, _)
batch_iterator_from(g, lst, counter, u, limit, size) ==
    LET n == batch_iterator_next(g, lst, counter, u, limit, size)
    IN  IF n.yielded
        THEN << << n.batch_idx, n.batch >> >>
                 \o batch_iterator_from(n.gen, lst, counter, u, limit, size)
        ELSE <<>>

batch_iterator(lst, counter, u, limit, size) ==
    batch_iterator_from(GenInit, lst, counter, u, limit, size)

\* ----------------------------------------------------- the provider
Statuses ==
    { "validating", "failed", "in_progress", "finalizing", "completed",
      "expired", "cancelling", "cancelled" }

\* what batches.retrieve can answer: any status without an output file, and
\* an output file once the job writes or has written one
RetrieveAnswers ==
    { << s, None >> : s \in Statuses }
        \cup { << s, "file-out" >> :
                 s \in { "finalizing", "completed", "expired", "cancelled" } }

\* a line of an output file: kind "record" is a JSON object with a custom_id
\* and response.body.data; "nocid" is a JSON object without custom_id;
\* "badjson" is not JSON
FaithfulRecords(payload) ==
    [ k \in 1 .. Len(payload) |->
        [ kind |-> "record",
          custom_id |-> payload[k].custom_id,
          data |-> [ j \in 1 .. Len(payload[k].input) |->
                       Embedding(payload[k].input[j]) ] ] ]

\* seq rotated by r places, then reversed if rev
Permute(seq, r, rev) ==
    LET n == Len(seq)
        rot == [ i \in 1 .. n |-> seq[((i - 1 + r) % n) + 1] ]
    IN  IF rev THEN [ i \in 1 .. n |-> rot[n + 1 - i] ] ELSE rot

\* one record per request line, the records in some order
FaithfulOutputs(payload) ==
    IF payload = <<>> THEN { <<>> }
    ELSE { Permute(FaithfulRecords(payload), r, rev) :
             r \in 0 .. (Len(payload) - 1), rev \in BOOLEAN }

\* outputs that are not one record per request line: a line that is not
\* JSON, a record without custom_id, a record under the custom_id of another
\* batch, a record missing
UnfaithfulOutputs(payload, u, b_idx) ==
    IF payload = <<>> THEN {}
    ELSE LET good == FaithfulRecords(payload)
         IN  { [ good EXCEPT ![1].kind = "badjson", ![1].custom_id = <<>>, ![1].data = <<>> ],
               [ good EXCEPT ![1].kind = "nocid", ![1].custom_id = <<>> ],
               [ good EXCEPT ![1].custom_id = custom_id(u, b_idx + 1, 0) ],
               Tail(good) }

\* ----------------------------------------------------- _process_one_batch
\* output_content.strip().split("\n"): an empty text gives [""]
EmptyLine == [ kind |-> "badjson", custom_id |-> <<>>, data |-> <<>> ]

split_lines(content) ==
    IF content = <<>> THEN << EmptyLine >> ELSE content

\* loads raises on a line that is not JSON, itemgetter("custom_id") on a
\* record without the key
ParseRaises(lines) ==
    \E k \in 1 .. Len(lines) : lines[k].kind # "record"

\* a line of the output is malformed, or is a record whose custom_id is not
\* the custom_id of a request line of the payload
BadOutput(lines, payload) ==
    \E k \in 1 .. Len(lines) :
        \/ lines[k].kind # "record"
        \/ \A j \in 1 .. Len(payload) : payload[j].custom_id # lines[k].custom_id

\* sorted(raw_results, key=itemgetter("custom_id")): a stable sort
RECURSIVE InsertSorted(_, _)
InsertSorted(s, r) ==
    IF s = <<>> THEN << r >>
    ELSE IF StrLess(r.custom_id, s[1].custom_id) THEN << r >> \o s
    ELSE << s[1] >> \o InsertSorted(Tail(s), r)

RECURSIVE sorted(_)
sorted(seq) ==
    IF seq = <<>> THEN <<>>
    ELSE InsertSorted(sorted(SubSeq(seq, 1, Len(seq) - 1)), seq[Len(seq)])

\* variant: only the first vector of each record is taken
FlattenFirst(sorted_results) ==
    [ k \in 1 .. Len(sorted_results) |-> sorted_results[k].data[1] ]

\* [data["embedding"] for result in sorted_results for data in result[...]["data"]]
Flatten(sorted_results) ==
    Concat([ k \in 1 .. Len(sorted_results) |-> sorted_results[k].data ])

\* ----------------------------------------- generate_openai_batch_embeddings
\* variant: the threshold itself still goes to the synchronous endpoint
SelectSyncInclusive(text_length) == text_length <= SyncThreshold

SelectSync(text_length) == text_length < SyncThreshold

\* the classes "except Exception" catches
ExceptionClasses == { "RetryError", "RuntimeError", "ValueError", "Exception" }
\* variant: the handler names one class
CaughtRuntimeOnly(exc) == exc = "RuntimeError"

Caught(exc) == exc \in ExceptionClasses

\* what the caller gets when exc leaves _request_sync_embedding or
\* _request_async_embedding
Propagate(e, exc) ==
    IF e = "generate" /\ Caught(exc) THEN "none" ELSE "raised"

\* ----------------------------------------------------------------- Init
Locals == << input_file, batch_job, status, output_file_id >>

ShortLists ==
    UNION { [ 1 .. n -> TextKinds ] : n \in 0 .. MaxTexts }
LongLists ==
    { [ k \in 1 .. n |-> LongKind ] : n \in (MaxLong - 1) .. MaxLong }

\* the k-th text gets content k; text sp, if any, holds a special token of
\* the tiktoken encodings (such as "<|endoftext|>")
MkTexts(kinds, sp) ==
    [ k \in 1 .. Len(kinds) |->
        [ id |-> k, len |-> kinds[k].len, tok |-> kinds[k].tok,
          special |-> (k = sp) ] ]

\* where the text with a special token is tried: nowhere (0), or as the last
\* text of a short list
SpecialAt(kinds) ==
    IF Len(kinds) > MaxTexts THEN { 0 } ELSE { 0, Len(kinds) }

\* generate_openai_batch_embeddings passes neither token_limit nor
\* chunk_size, so both have their defaults there; a direct caller of
\* _request_async_embedding chooses token_limit, and chunk_size ranges over
\* ChunkSizes as the parameter of _batch_iterator
Init ==
    /\ \E kinds \in ShortLists \cup LongLists :
         \E sp \in SpecialAt(kinds) : texts = MkTexts(kinds, sp)
    /\ entry \in { "generate", "async" }
    /\ token_limit \in IF entry = "generate" THEN { DefaultTokenLimit }
                      ELSE IF Len(texts) > MaxTexts THEN LongTokenLimits
                      ELSE TokenLimits
    /\ chunk_size \in IF entry = "generate" THEN { DefaultChunkSize } ELSE ChunkSizes
    /\ encodings \in SUBSET { "model", "cl100k_base" }
    /\ uuid \in Uuids
    /\ pc = "start"
    /\ attempt = 0
    /\ gen = GenInit
    /\ batch_idx = 0
    /\ batch = <<>>
    /\ input_file = None
    /\ batch_job = None
    /\ status = None
    /\ output_file_id = None
    /\ embeddings = <<>>
    /\ outcome = "running"
    /\ faithful = TRUE
    /\ submitted = {}
    /\ returned = {}
    /\ failed_batches = {}
    /\ exhausted = {}
    /\ sync_called = FALSE
    /\ escaped = None
    /\ sync_posts = 0
    /\ yielded = <<>>
    /\ assembled_bad = FALSE

\* -------------------------------------------------------------- actions
\* generate_openai_batch_embeddings(model, texts, key, url) up to the call
\* of one of the two paths
GenerateCall ==
    /\ pc = "start"
    /\ entry = "generate"
    /\ IF SelectSync(SumLen(texts))
       THEN pc' = "sync" /\ attempt' = 1
       ELSE pc' = "next_batch" /\ attempt' = attempt
    /\ UNCHANGED << inputs, gen, batch_idx, batch, Locals, embeddings, outcome,
                    history, counts >>

\* _request_async_embedding(model, texts, key, token_limit=...) called
\* directly, up to the first next() of the generator
AsyncCall ==
    /\ pc = "start"
    /\ entry = "async"
    /\ pc' = "next_batch"
    /\ UNCHANGED << inputs, attempt, gen, batch_idx, batch, Locals, embeddings,
                    outcome, history, counts >>

\* _request_sync_embedding: the POST answers with a "data" list
SyncReturns ==
    /\ pc = "sync"
    /\ \E short \in BOOLEAN :
         /\ short => texts # <<>>
         /\ embeddings' =
              [ k \in 1 .. (IF short THEN Len(texts) - 1 ELSE Len(texts)) |->
                  Embedding(texts[k]) ]
         /\ faithful' = (faithful /\ ~short)
    /\ sync_called' = TRUE
    /\ sync_posts' = sync_posts + 1
    /\ pc' = "done"
    /\ outcome' = "list"
    /\ UNCHANGED << inputs, attempt, gen, batch_idx, batch, Locals, submitted,
                    returned, failed_batches, exhausted, escaped, yielded,
                    assembled_bad >>

\* _request_sync_embedding: requests.post or raise_for_status raises, or the
\* answer has no "data"; tenacity retries or gives up with RetryError
SyncRaises ==
    /\ pc = "sync"
    /\ sync_called' = TRUE
    /\ sync_posts' = sync_posts + 1
    /\ IF attempt < SyncAttempts
       THEN /\ attempt' = attempt + 1
            /\ UNCHANGED << pc, outcome, escaped >>
       ELSE /\ pc' = "done"
            /\ escaped' = "RetryError"
            /\ outcome' = Propagate(entry, "RetryError")
            /\ attempt' = attempt
    /\ UNCHANGED << inputs, gen, batch_idx, batch, Locals, embeddings, faithful,
                    submitted, returned, failed_batches, exhausted, yielded,
                    assembled_bad >>

\* the comprehension of _request_async_embedding asks the generator for the
\* next batch: it calls _process_one_batch on it, or returns the list, or
\* the ValueError of the token counter leaves the generator and the
\* comprehension
NextBatch ==
    /\ pc = "next_batch"
    /\ LET n == batch_iterator_next(gen, texts, get_token_count(encodings), uuid,
                                    token_limit, chunk_size)
       IN  /\ gen' = n.gen
           /\ IF n.yielded
              THEN /\ batch_idx' = n.batch_idx
                   /\ batch' = n.batch
                   /\ attempt' = 1
                   /\ pc' = "upload"
                   /\ yielded' = Append(yielded, [ batch_idx |-> n.batch_idx,
                                                   request |-> n.request ])
                   /\ UNCHANGED << outcome, escaped >>
              ELSE IF n.raised
              THEN /\ pc' = "done"
                   /\ escaped' = "ValueError"
                   /\ outcome' = Propagate(entry, "ValueError")
                   /\ UNCHANGED << batch_idx, batch, attempt, yielded >>
              ELSE /\ pc' = "done"
                   /\ outcome' = "list"
                   /\ UNCHANGED << batch_idx, batch, attempt, escaped, yielded >>
    /\ UNCHANGED << inputs, Locals, embeddings, faithful, submitted, returned,
                    failed_batches, exhausted, sync_called, sync_posts,
                    assembled_bad >>

\* variant: when the attempts are used up the batch is skipped and the
\* comprehension goes on with the next one
ProcessSkips ==
    /\ input_file' = None
    /\ batch_job' = None
    /\ status' = None
    /\ output_file_id' = None
    /\ IF attempt < ProcessAttempts
       THEN /\ attempt' = attempt + 1
            /\ pc' = "upload"
            /\ UNCHANGED << outcome, exhausted, escaped >>
       ELSE /\ attempt' = attempt
            /\ exhausted' = exhausted \cup { batch_idx }
            /\ pc' = "next_batch"
            /\ UNCHANGED << outcome, escaped >>

\* variant: one attempt more before giving up
ProcessRaisesSixth ==
    /\ input_file' = None
    /\ batch_job' = None
    /\ status' = None
    /\ output_file_id' = None
    /\ IF attempt <= ProcessAttempts
       THEN /\ attempt' = attempt + 1
            /\ pc' = "upload"
            /\ UNCHANGED << outcome, exhausted, escaped >>
       ELSE /\ attempt' = attempt
            /\ exhausted' = exhausted \cup { batch_idx }
            /\ pc' = "done"
            /\ escaped' = "RetryError"
            /\ outcome' = Propagate(entry, "RetryError")

\* variant: the retry goes back to polling the job it has, if it has one
ProcessRepolls ==
    /\ status' = None
    /\ output_file_id' = None
    /\ IF attempt < ProcessAttempts
       THEN /\ attempt' = attempt + 1
            /\ pc' = IF batch_job = None THEN "upload" ELSE "retrieve"
            /\ input_file' = IF batch_job = None THEN None ELSE input_file
            /\ batch_job' = batch_job
            /\ UNCHANGED << outcome, exhausted, escaped >>
       ELSE /\ attempt' = attempt
            /\ input_file' = None
            /\ batch_job' = None
            /\ exhausted' = exhausted \cup { batch_idx }
            /\ pc' = "done"
            /\ escaped' = "RetryError"
            /\ outcome' = Propagate(entry, "RetryError")

\* an exception inside _process_one_batch: logged, re-raised, and tenacity
\* calls the function again or raises RetryError, which leaves the
\* comprehension
ProcessRaises ==
    /\ input_file' = None
    /\ batch_job' = None
    /\ status' = None
    /\ output_file_id' = None
    /\ IF attempt < ProcessAttempts
       THEN /\ attempt' = attempt + 1
            /\ pc' = "upload"
            /\ UNCHANGED << outcome, exhausted, escaped >>
       ELSE /\ attempt' = attempt
            /\ exhausted' = exhausted \cup { batch_idx }
            /\ pc' = "done"
            /\ escaped' = "RetryError"
            /\ outcome' = Propagate(entry, "RetryError")

\* client.files.create returns
Upload ==
    /\ pc = "upload"
    /\ input_file' = << batch_idx, attempt >>
    /\ submitted' = submitted \cup { batch_idx }
    /\ pc' = "create"
    /\ UNCHANGED << inputs, attempt, gen, batch_idx, batch, batch_job, status,
                    output_file_id, embeddings, outcome, faithful, returned,
                    failed_batches, exhausted, sync_called, escaped, counts >>

\* variant: the job is created and left; the comprehension goes on with the
\* next batch
CreateAndMoveOn ==
    /\ pc = "create"
    /\ batch_job' = None
    /\ input_file' = None
    /\ pc' = "next_batch"
    /\ UNCHANGED << inputs, attempt, gen, batch_idx, batch, status,
                    output_file_id, embeddings, outcome, history, counts >>

\* client.batches.create returns
Create ==
    /\ pc = "create"
    /\ batch_job' = << batch_idx, attempt >>
    /\ pc' = "retrieve"
    /\ UNCHANGED << inputs, attempt, gen, batch_idx, batch, input_file, status,
                    output_file_id, embeddings, outcome, history, counts >>

\* variant: "completed" is enough to fetch, with or without an output file
RetrieveIgnoresHandle ==
    /\ pc = "retrieve"
    /\ \E ans \in RetrieveAnswers :
         LET s == ans[1]
             ofid == ans[2]
         IN
         IF s = "completed"
         THEN /\ status' = s
              /\ output_file_id' = ofid
              /\ pc' = "content"
              /\ UNCHANGED << attempt, input_file, batch_job, outcome,
                              failed_batches, exhausted, escaped >>
         ELSE IF s \in { "failed", "expired", "cancelled" }
         THEN /\ failed_batches' = failed_batches \cup { batch_idx }
              /\ ProcessRaises
         ELSE /\ status' = s
              /\ output_file_id' = ofid
              /\ UNCHANGED << pc, attempt, input_file, batch_job, outcome,
                              failed_batches, exhausted, escaped >>
    /\ UNCHANGED << inputs, gen, batch_idx, batch, embeddings, faithful,
                    submitted, returned, sync_called, counts >>

\* client.batches.retrieve returns: one turn of the while loop up to the
\* fetch, the raise or the sleep
Retrieve ==
    /\ pc = "retrieve"
    /\ \E ans \in RetrieveAnswers :
         LET s == ans[1]
             ofid == ans[2]
         IN
         IF ofid # None /\ s = "completed"
         THEN /\ status' = s
              /\ output_file_id' = ofid
              /\ pc' = "content"
              /\ UNCHANGED << attempt, input_file, batch_job, outcome,
                              failed_batches, exhausted, escaped >>
         ELSE IF s \in { "failed", "expired", "cancelled" }
         THEN /\ failed_batches' = failed_batches \cup { batch_idx }
              /\ ProcessRaises
         ELSE /\ status' = s
              /\ output_file_id' = ofid
              /\ UNCHANGED << pc, attempt, input_file, batch_job, outcome,
                              failed_batches, exhausted, escaped >>
    /\ UNCHANGED << inputs, gen, batch_idx, batch, embeddings, faithful,
                    submitted, returned, sync_called, counts >>

\* client.files.content returns: parse, sort, flatten, return.  The provider
\* gives an output that is not one record per request line at most once in a
\* call (faithful records it).
Content ==
    /\ pc = "content"
    /\ \E out \in FaithfulOutputs(batch)
                   \cup (IF faithful THEN UnfaithfulOutputs(batch, uuid, batch_idx) ELSE {}) :
         LET lines == split_lines(out)
         IN  /\ faithful' = (faithful /\ out \in FaithfulOutputs(batch))
             /\ IF ParseRaises(lines)
                THEN /\ ProcessRaises
                     /\ UNCHANGED << embeddings, returned, assembled_bad >>
                ELSE /\ embeddings' = embeddings \o Flatten(sorted(lines))
                     /\ assembled_bad' = (assembled_bad \/ BadOutput(lines, batch))
                     /\ returned' = returned \cup { batch_idx }
                     /\ pc' = "next_batch"
                     /\ input_file' = None
                     /\ batch_job' = None
                     /\ status' = None
                     /\ output_file_id' = None
                     /\ UNCHANGED << attempt, outcome, exhausted, escaped >>
    /\ UNCHANGED << inputs, gen, batch_idx, batch, submitted, failed_batches,
                    sync_called, sync_posts, yielded >>

\* one of the four client calls raises (connection, timeout, API error)
ClientError ==
    /\ pc \in { "upload", "create", "retrieve", "content" }
    /\ submitted' = IF pc = "upload" THEN submitted \cup { batch_idx } ELSE submitted
    /\ ProcessRaises
    /\ UNCHANGED << inputs, gen, batch_idx, batch, embeddings, faithful, returned,
                    failed_batches, sync_called, counts >>

Next ==
    \/ GenerateCall
    \/ AsyncCall
    \/ SyncReturns
    \/ SyncRaises
    \/ NextBatch
    \/ Upload
    \/ Create
    \/ Retrieve
    \/ Content
    \/ ClientError

Spec == Init /\ [][Next]_vars

\* ------------------------------------------------------------- properties
\* the embeddings of the input texts, in input order
Expected == [ k \in 1 .. Len(texts) |-> Embedding(texts[k]) ]

\* the call has returned a list from the batch path
BatchListReturned == pc = "done" /\ outcome = "list" /\ ~sync_called

\* the texts of a payload, in payload order
BatchTexts(payload) ==
    Concat([ k \in 1 .. Len(payload) |-> payload[k].input ])

RECURSIVE TokenSum(_, _)
TokenSum(counter, lst) ==
    IF lst = <<>> THEN 0
    ELSE text2tokens(counter, lst[1]) + TokenSum(counter, Tail(lst))

\* the batch_idx values of the whole plan for this call's input
PlanIdx ==
    LET plan == batch_iterator(texts, get_token_count(encodings), uuid,
                               token_limit, chunk_size)
    IN  { plan[k][1] : k \in 1 .. Len(plan) }

\* the call is inside _process_one_batch
InProcess == pc \in { "upload", "create", "retrieve", "content" }

\* C1: on the batch path, with a provider that answers every completed job
\* with one record per request chunk (in any order), the list returned has
\* the embedding of input text k at position k, for every k.
C1_OrderPreserved ==
    (BatchListReturned /\ faithful) => embeddings = Expected

\* C2: for a non-empty input, whenever a list is returned and the provider
\* gave one record per request chunk with one vector per text, the list has
\* as many embeddings as there are input texts.
C2_CountMatches ==
    (pc = "done" /\ outcome = "list" /\ faithful /\ texts # <<>>)
        => Len(embeddings) = Len(texts)

\* a list came back from three batches
C2_Witness ==
    /\ BatchListReturned
    /\ faithful
    /\ Len(texts) = 3
    /\ returned = { 0, 1, 2 }
    /\ Len(embeddings) = 3

\* C3: the token counts of the texts of every batch the planner yields sum
\* to at most token_limit, unless the batch is exactly one text whose own
\* count exceeds token_limit; a text that alone exceeds token_limit is never
\* in a batch with another text.
C3_TokenBudget ==
    LET ts == BatchTexts(batch)
        counter == get_token_count(encodings)
    IN  /\ \/ TokenSum(counter, ts) <= token_limit
           \/ Len(ts) = 1 /\ text2tokens(counter, ts[1]) > token_limit
        /\ \A k \in 1 .. Len(ts) :
             text2tokens(counter, ts[k]) > token_limit => Len(ts) = 1

\* a batch of one oversized text was yielded after a batch that fills the limit
C3_Witness ==
    LET ts == BatchTexts(batch)
        counter == get_token_count(encodings)
    IN  /\ pc = "upload"
        /\ batch_idx = 1
        /\ Len(ts) = 1
        /\ text2tokens(counter, ts[1]) > token_limit
        /\ 0 \in returned

\* C4: sorting the custom_id strings of a batch's request chunks as strings
\* gives the chunks in the order they were built, whatever their number.
C4_SortKeepsChunkOrder ==
    sorted(FaithfulRecords(batch)) = FaithfulRecords(batch)

\* C5: once a job of a batch was seen failed, expired or cancelled, no
\* further upload or job creation is made for that batch.
C5_NoRetryAfterTerminal ==
    pc \in { "upload", "create" } => batch_idx \notin failed_batches

\* C6: a call of generate_openai_batch_embeddings that saw a job failed,
\* expired or cancelled returns None, not a list.
C6_TerminalFailureGivesNone ==
    (entry = "generate" /\ pc = "done" /\ failed_batches # {})
        => outcome = "none"

\* C7: no error leaves generate_openai_batch_embeddings: an exception that
\* leaves the synchronous or the batch path makes the call return None.
C7_NoErrorEscapes ==
    entry = "generate" =>
        /\ outcome # "raised"
        /\ escaped # None => outcome = "none"

\* the batch path gave up after a job was seen failed, expired or cancelled
C7_Witness ==
    /\ entry = "generate"
    /\ pc = "done"
    /\ escaped = "RetryError"
    /\ exhausted # {}
    /\ failed_batches # {}
    /\ outcome = "none"

\* C8: a call that returns a list from the batch path got the output of a
\* completed job for every batch of the plan; when a batch ends without a
\* result the call does not return a list (generate_openai_batch_embeddings
\* returns None), whatever batches succeeded before.
C8_NoPartialResults ==
    /\ BatchListReturned => returned = PlanIdx
    /\ (pc = "done" /\ exhausted # {}) =>
          /\ outcome # "list"
          /\ entry = "generate" => outcome = "none"

\* the second batch ended without a result after the first had succeeded
C8_Witness ==
    /\ entry = "generate"
    /\ pc = "done"
    /\ returned = { 0 }
    /\ exhausted = { 1 }
    /\ embeddings # <<>>
    /\ outcome = "none"

\* C9: in generate_openai_batch_embeddings, a total length below 500,000
\* uses only the synchronous endpoint (no upload, no job), and a total of
\* 500,000 or more uses only the batch path (no synchronous call).
C9_PathSelection ==
    entry = "generate" =>
        IF SumLen(texts) < SyncThreshold
        THEN /\ pc \in { "start", "sync", "done" }
             /\ submitted = {}
             /\ input_file = None
             /\ batch_job = None
             /\ pc = "done" => sync_called
        ELSE /\ pc # "sync"
             /\ ~sync_called
             /\ pc = "done" => (submitted # {} \/ escaped = "ValueError")

\* a total of exactly 500,000 characters went through the batch path
C9_Witness ==
    /\ entry = "generate"
    /\ SumLen(texts) = SyncThreshold
    /\ pc = "done"
    /\ submitted # {}
    /\ outcome = "list"

\* C10: batches are processed one after the other in ascending batch_idx:
\* nothing is uploaded for a batch before every earlier batch has returned
\* its embeddings, and the job being polled is a job of the one batch in
\* process, no later batch having been submitted.
C10_Sequential ==
    /\ \A b \in submitted : \A a \in 0 .. (b - 1) : a \in returned
    /\ InProcess =>
          /\ \A b \in submitted : b <= batch_idx
          /\ \A a \in 0 .. (batch_idx - 1) : a \in returned
    /\ pc = "retrieve" => batch_job[1] = batch_idx

\* the job of the third batch is polled after two batches have returned
C10_Witness ==
    /\ pc = "retrieve"
    /\ batch_job[1] = 2
    /\ returned = { 0, 1 }
    /\ submitted = { 0, 1, 2 }

\* the texts of all batches yielded so far, in the order of the yields
YieldedTexts ==
    Concat([ k \in 1 .. Len(yielded) |-> yielded[k].request ])

\* the text list of the batch last yielded
CurrentRequest == yielded[Len(yielded)].request

\* the number of texts in the chunks before chunk k of a payload
OffsetOf(payload, k) ==
    Len(Concat([ j \in 1 .. (k - 1) |-> payload[j].input ]))

\* "batch_" + run id + "_" + batch_idx + "_" + offset, written out
IdOf(u, b_idx, offset) ==
    << 98, 97, 116, 99, 104, 95 >> \o u \o << 95 >> \o DecStr(b_idx)
        \o << 95 >> \o DecStr(offset)

TerminalFailures == { "failed", "expired", "cancelled" }

\* C11: the retry policy is bounded: at most 5 attempts of the
\* submit-through-fetch sequence per batch, every job of a batch being the
\* job of one of its attempts 1..5, at most 5 synchronous calls; the
\* RetryError leaves after the 5th failed attempt and the request ends with
\* the failure outcome.
C11_BoundedRetry ==
    /\ InProcess => attempt \in 1 .. ProcessAttempts
    /\ pc = "sync" => attempt \in 1 .. SyncAttempts
    /\ sync_posts <= SyncAttempts
    /\ batch_job # None =>
          /\ batch_job[1] = batch_idx
          /\ batch_job[2] \in 1 .. ProcessAttempts
    /\ escaped = "RetryError" =>
          /\ pc = "done"
          /\ attempt = (IF sync_called THEN SyncAttempts ELSE ProcessAttempts)
          /\ outcome = (IF entry = "generate" THEN "none" ELSE "raised")

\* the fifth attempt of a batch failed and the call ended with None
C11_Witness ==
    /\ entry = "generate"
    /\ pc = "done"
    /\ exhausted = { 0 }
    /\ attempt = ProcessAttempts
    /\ escaped = "RetryError"
    /\ outcome = "none"

\* C12: every batch the planner yields holds at least one text, also when
\* the very first text alone exceeds token_limit; no empty payload is
\* submitted.
C12_NoEmptyBatch ==
    /\ \A k \in 1 .. Len(yielded) : yielded[k].request # <<>>
    /\ InProcess => batch # <<>>

\* C13: when a status poll returns completed, failed, expired or cancelled,
\* the polling loop of that job ends: the job is not polled again.
C13_PollingEndsOnTerminal ==
    pc = "retrieve" => status \notin ({ "completed" } \cup TerminalFailures)

\* C14: an output with a malformed line, or with a custom_id that is not of
\* a request chunk of the submitted batch, makes assembling fail: no
\* embeddings are returned from it.
C14_BadOutputRejected ==
    ~assembled_bad

\* C15: the batches yielded partition the input in order: batch_idx is
\* 0, 1, 2, ... in the order of the yields, the texts of the batches
\* concatenated are the input list (a prefix of it while the generator is
\* suspended), and an empty input yields no batch.
C15_Partition ==
    /\ \A k \in 1 .. Len(yielded) : yielded[k].batch_idx = k - 1
    /\ Len(YieldedTexts) <= Len(texts)
    /\ YieldedTexts = SubSeq(texts, 1, Len(YieldedTexts))
    /\ (gen.finished /\ escaped # "ValueError") => YieldedTexts = texts
    /\ texts = <<>> => yielded = <<>>

\* the generator has ended after three batches
C15_Witness ==
    /\ gen.finished
    /\ Len(yielded) = 3
    /\ Len(texts) = 3
    /\ YieldedTexts = texts
    /\ pc = "done"
    /\ outcome = "list"

\* C16: in every payload each request chunk holds between 1 and chunk_size
\* texts, the chunks in order concatenate to the text list of the batch,
\* the custom_id of a chunk is made of the run id, the batch_idx and the
\* offset of the chunk's first text in the batch, and no two chunks of a
\* payload have the same custom_id.
C16_ChunksOfPayload ==
    yielded # <<>> =>
        /\ \A k \in 1 .. Len(batch) :
             /\ Len(batch[k].input) \in 1 .. chunk_size
             /\ batch[k].custom_id = IdOf(uuid, batch_idx, OffsetOf(batch, k))
        /\ BatchTexts(batch) = CurrentRequest
        /\ \A j, k \in 1 .. Len(batch) :
             j # k => batch[j].custom_id # batch[k].custom_id

\* a payload of two chunks, the second one not full
C16_Witness ==
    /\ pc = "upload"
    /\ chunk_size = 2
    /\ Len(batch) = 2
    /\ Len(batch[1].input) = 2
    /\ Len(batch[2].input) = 1

\* C17: the output file is fetched, and embeddings are returned, only for a
\* job seen completed with an output file; after any other answer that is
\* not failed, expired or cancelled the same job is polled again, nothing
\* being returned or raised.
C17_FetchOnlyWhenCompleted ==
    /\ [](pc = "content" =>
            /\ status = "completed"
            /\ output_file_id # None
            /\ batch_job = << batch_idx, attempt >>)
    /\ [][returned' # returned =>
            (pc = "content" /\ status = "completed" /\ output_file_id # None)]_vars
    /\ [][(pc = "retrieve" /\ status' # None
              /\ ~(status' = "completed" /\ output_file_id' # None)) =>
            /\ status' \notin TerminalFailures
            /\ pc' = "retrieve"
            /\ batch_job' = batch_job
            /\ attempt' = attempt
            /\ returned' = returned
            /\ embeddings' = embeddings
            /\ outcome' = outcome
            /\ escaped' = escaped]_vars

\* a job seen completed without an output file is about to be polled again
C17_Witness ==
    /\ pc = "retrieve"
    /\ status = "completed"
    /\ output_file_id = None
    /\ batch_job = << batch_idx, attempt >>

\* C18: once a batch has ended without a result, nothing is uploaded,
\* created or polled for a batch with a higher batch_idx: the request ends
\* at the first batch that fails.
C18_StopsAtFirstFailure ==
    exhausted # {} =>
        /\ pc = "done"
        /\ \A e \in exhausted :
             /\ \A b \in submitted : b <= e
             /\ \A k \in 1 .. Len(yielded) : yielded[k].batch_idx <= e
             /\ batch_idx = e

\* the first of at least two batches ended without a result
C18_Witness ==
    /\ exhausted = { 0 }
    /\ submitted = { 0 }
    /\ pc = "done"
    /\ { 0, 1 } \subseteq PlanIdx

\* C19: every attempt of a batch starts from scratch: it uploads the
\* payload and creates a job of its own, and only that job is polled and
\* fetched; nothing of an earlier attempt is kept.
C19_FreshAttempt ==
    /\ pc = "upload" =>
          /\ input_file = None
          /\ batch_job = None
          /\ status = None
          /\ output_file_id = None
    /\ pc = "create" =>
          /\ input_file = << batch_idx, attempt >>
          /\ batch_job = None
    /\ pc \in { "retrieve", "content" } =>
          /\ input_file = << batch_idx, attempt >>
          /\ batch_job = << batch_idx, attempt >>

\* the job of a third attempt is polled, after a job of the batch had failed
C19_Witness ==
    /\ pc = "retrieve"
    /\ attempt = 3
    /\ batch_job = << batch_idx, 3 >>
    /\ batch_idx \in failed_batches
    /\ status = "in_progress"

\* C20: token counting never fails, whatever tokenizer is or is not
\* available, so that no error of the token counter ends the planning or
\* the request.
C20_CountingNeverFails ==
    escaped # "ValueError"

====
